---- MODULE Spec2Model ----
(***************************************************************************)
(* Model of src/app.py: a Streamlit script that is re-executed from top to *)
(* bottom on every widget event and on every st.rerun().  The persistent   *)
(* state is st.session_state (six keys) plus the state of the two sidebar  *)
(* select boxes; a script run is one step, split only where the run waits  *)
(* for the chat-completion gateway (lines 121 and 141), whose outcome is   *)
(* a reply content or an exception.                                        *)
(***************************************************************************)
EXTENDS Integers, Sequences, FiniteSets, TLC

(* ------------------------------ bounds --------------------------------- *)

\* most user messages submitted into one transcript
MaxTurns == 2

(* --------------------------- program data ------------------------------ *)

\* Python None for the string-valued session fields
None == "<None>"

\* Python None for system_prompt (a prompt is a non-empty sequence of pieces)
NoPrompt == <<>>

\* the acts list, each entry already split at " - " into [name, desc]
acts ==
  << [name |-> "22nd Amendment (1951)", desc |-> "Limits presidents to two terms."],
     [name |-> "25th Amendment (1967)", desc |-> "Handles what happens if the president can't do their job."],
     [name |-> "Pendleton Act (1883)",  desc |-> "Makes government jobs based on skills, not politics."],
     [name |-> "Hatch Act (1939)",      desc |-> "Stops government workers from doing politics on the job."] >>

\* the options of the first select box: [a.split(" - ")[0] for a in acts]
ActNames == { acts[i].name : i \in 1..Len(acts) }

project_types ==
  << "A paragraph describing a scenario",
     "A comic strip of a scenario",
     "A skit showing a scenario" >>

ProjectTypeNames == { project_types[i] : i \in 1..Len(project_types) }

type_map(t) ==
  CASE t = "A paragraph describing a scenario" -> "paragraph"
    [] t = "A comic strip of a scenario"       -> "comic strip"
    [] t = "A skit showing a scenario"         -> "skit"

\* a description lookup that takes the first entry without the filter
act_desc_First(a) == acts[1].desc

\* next(desc for act, desc in zip(names, descs) if act == a)
act_desc(a) == acts[CHOOSE i \in 1..Len(acts) : acts[i].name = a].desc

\* the f-string of the system prompt: fixed text around the three holes
BuildSystemPrompt(a, t) ==
  << "You are a kind and patient AI teacher assistant ... create a simple, fun ",
     type_map(t),
     " about a scenario under the ",
     a, ": ", act_desc(a),
     ". Rules: ... Start by asking: 'What's a fun scenario you can think of for this act? ...'" >>

\* the suffix added to the system message of the final call
FinalSuffix == "\n\nNow, using all the info from our chat, generate the final project."

\* truthiness of a str-or-None value
Truthy(x) == x # None /\ x # ""

(* ------------------------- user inputs, replies ------------------------ *)

\* what the student may type into the chat box (non-empty texts)
Prompts == { "I choose A, done", "already", "FINISH", "Red one" }

\* the characters of each text
Chars(p) ==
  CASE p = "I choose A, done" ->
         <<"I"," ","c","h","o","o","s","e"," ","A",","," ","d","o","n","e">>
    [] p = "already" -> <<"a","l","r","e","a","d","y">>
    [] p = "FINISH"  -> <<"F","I","N","I","S","H">>
    [] p = "Red one" -> <<"R","e","d"," ","o","n","e">>

UpperCase == <<"A","B","C","D","E","F","G","H","I","J","K","L","M",
               "N","O","P","Q","R","S","T","U","V","W","X","Y","Z">>
LowerCase == <<"a","b","c","d","e","f","g","h","i","j","k","l","m",
               "n","o","p","q","r","s","t","u","v","w","x","y","z">>

\* str.lower() on one character
LowerChar(c) ==
  IF \E i \in 1..26 : UpperCase[i] = c
  THEN LowerCase[CHOOSE i \in 1..26 : UpperCase[i] = c]
  ELSE c

\* str.lower()
Lower(s) == [i \in 1..Len(s) |-> LowerChar(s[i])]

\* w in s
Contains(s, w) ==
  \E i \in 1..(Len(s) - Len(w) + 1) : SubSeq(s, i, i + Len(w) - 1) = w

CompletionWords ==
  { <<"d","o","n","e">>, <<"f","i","n","i","s","h">>, <<"r","e","a","d","y">> }

\* a keyword check that forgets .lower()
HasCompletionToken_CaseSensitive(p) ==
  \E w \in CompletionWords : Contains(Chars(p), w)

\* any(word in prompt.lower() for word in ["done", "finish", "ready"])
HasCompletionToken(p) ==
  \E w \in CompletionWords : Contains(Lower(Chars(p)), w)

\* reply contents the gateway may return to a chat turn
\* (response.choices[0].message.content, assigned to ai_reply)
Replies == { "Great choice!" }

\* reply contents the gateway may return to the final call
\* (response.choices[0].message.content, assigned to final_output)
FinalReplies == { "", "Panel 1: ..." }

(* --------------------------- export file name -------------------------- *)

\* the characters of each act name and each project type label
NameChars(s) ==
  CASE s = "22nd Amendment (1951)" ->
         <<"2","2","n","d"," ","A","m","e","n","d","m","e","n","t"," ","(","1","9","5","1",")">>
    [] s = "25th Amendment (1967)" ->
         <<"2","5","t","h"," ","A","m","e","n","d","m","e","n","t"," ","(","1","9","6","7",")">>
    [] s = "Pendleton Act (1883)" ->
         <<"P","e","n","d","l","e","t","o","n"," ","A","c","t"," ","(","1","8","8","3",")">>
    [] s = "Hatch Act (1939)" ->
         <<"H","a","t","c","h"," ","A","c","t"," ","(","1","9","3","9",")">>
    [] s = "A paragraph describing a scenario" ->
         <<"A"," ","p","a","r","a","g","r","a","p","h"," ","d","e","s","c","r","i","b","i","n","g"," ","a"," ","s","c","e","n","a","r","i","o">>
    [] s = "A comic strip of a scenario" ->
         <<"A"," ","c","o","m","i","c"," ","s","t","r","i","p"," ","o","f"," ","a"," ","s","c","e","n","a","r","i","o">>
    [] s = "A skit showing a scenario" ->
         <<"A"," ","s","k","i","t"," ","s","h","o","w","i","n","g"," ","a"," ","s","c","e","n","a","r","i","o">>

\* str.replace(old, new) for single characters
Replace(s, old, new) == [i \in 1..Len(s) |-> IF s[i] = old THEN new ELSE s[i]]

\* file_name of the download button:
\* f"{act}_{project_type.lower().replace(' ', '_')}.txt"
FileName(a, t) ==
  NameChars(a) \o <<"_">> \o Replace(Lower(NameChars(t)), " ", "_")
    \o <<".", "t", "x", "t">>

(* ------------------------------- state --------------------------------- *)

VARIABLES
  api_key,         \* whether XAI_API_KEY is set in the environment
  keys,            \* the keys present in st.session_state
  act,             \* st.session_state.act
  project_type,    \* st.session_state.project_type
  chat_history,    \* st.session_state.chat_history
  system_prompt,   \* st.session_state.system_prompt
  gathering_info,  \* st.session_state.gathering_info
  final_project,   \* st.session_state.final_project
  act_select,      \* widget state of the select box "act_select"
  type_select,     \* widget state of the select box "type_select"
  trigger,         \* the widget event that caused the current / last script run
  prompt,          \* the local `prompt` of a run that is waiting for the gateway
  messages,        \* the local `messages` of a run that is waiting for the gateway
  pc,              \* "rerun" | "wait" | "gather_call" | "final_call"
  ui               \* what the current / last script run has put on the page

vars == << api_key, keys, act, project_type, chat_history, system_prompt,
           gathering_info, final_project, act_select, type_select,
           trigger, prompt, messages, pc, ui >>

SessionKeys ==
  { "act", "project_type", "chat_history", "system_prompt",
    "gathering_info", "final_project" }

\* nothing rendered
Blank ==
  [ sidebar |-> FALSE, chat_input |-> FALSE, download |-> FALSE,
    reset |-> FALSE, warning |-> FALSE, error |-> "none" ]

User(p)      == [role |-> "user", content |-> p]
Assistant(r) == [role |-> "assistant", content |-> r]

\* number of user messages in a transcript
RECURSIVE UserTurns(_)
UserTurns(h) ==
  IF h = <<>> THEN 0
  ELSE (IF h[Len(h)].role = "user" THEN 1 ELSE 0) + UserTurns(SubSeq(h, 1, Len(h) - 1))

\* the phase the script's branch conditions put the session in
Phase ==
  IF ~("system_prompt" \in keys /\ Truthy(act) /\ Truthy(project_type)
        /\ system_prompt # NoPrompt)
  THEN "Idle"
  ELSE IF gathering_info THEN "Gathering"
  ELSE IF ~Truthy(final_project) THEN "Finalizing"
  ELSE "Complete"

\* a fresh browser session: empty session_state, select boxes at index 0,
\* first script run pending
Init ==
  /\ api_key \in BOOLEAN
  /\ keys = {}
  /\ act = None
  /\ project_type = None
  /\ chat_history = <<>>
  /\ system_prompt = NoPrompt
  /\ gathering_info = TRUE
  /\ final_project = None
  /\ act_select = acts[1].name
  /\ type_select = project_types[1]
  /\ trigger = "none"
  /\ prompt = None
  /\ messages = <<>>
  /\ pc = "rerun"
  /\ ui = Blank

(* --------------------------- one script run ---------------------------- *)

\* `if k not in st.session_state: st.session_state.k = d`
Default(k, v, d) == IF k \in keys THEN v ELSE d

\* a Start handler that forgets to clear the previous artifact
StartFields_KeepFinal ==
  [ gathering_info |-> TRUE, chat_history |-> <<>>, final_project |-> final_project ]

\* the three assignments that follow the prompt construction in the
\* Start handler
StartFields ==
  [ gathering_info |-> TRUE, chat_history |-> <<>>, final_project |-> None ]

\* a message list that keeps only the two latest messages of the transcript
GatherMessages_Window(sp, h) ==
  << [role |-> "system", content |-> sp] >>
    \o SubSeq(h, IF Len(h) > 2 THEN Len(h) - 1 ELSE 1, Len(h))

\* the message list of a chat turn:
\* [{"role": "system", "content": system_prompt}] + chat_history
GatherMessages(sp, h) ==
  << [role |-> "system", content |-> sp] >> \o h

\* the message list of the final call: the system message carries the
\* prompt followed by the suffix
FinalMessages(sp, h) ==
  << [role |-> "system", content |-> Append(sp, FinalSuffix)] >> \o h

\* the main chat interface, entered with the session values a, t, h, sp, gi,
\* fp as the top of the script has left them; page is what is rendered so far
Main(trig, p, a, t, h, sp, gi, fp, page) ==
  /\ system_prompt' = sp
  /\ gathering_info' = gi
  /\ final_project' = fp
  /\ IF Truthy(a) /\ Truthy(t) /\ sp # NoPrompt
     THEN IF gi
          THEN \* chat mode
               /\ ui' = [page EXCEPT !.chat_input = TRUE]
               /\ IF trig = "chat"
                  THEN /\ chat_history' = Append(h, User(p))
                       /\ prompt' = p
                       /\ messages' = GatherMessages(sp, Append(h, User(p)))
                       /\ pc' = "gather_call"
                  ELSE /\ chat_history' = h
                       /\ prompt' = None
                       /\ messages' = <<>>
                       /\ pc' = "wait"
          ELSE IF ~Truthy(fp)
          THEN \* final project generation
               /\ ui' = page
               /\ chat_history' = h
               /\ prompt' = None
               /\ messages' = FinalMessages(sp, h)
               /\ pc' = "final_call"
          ELSE \* neither branch: nothing below the transcript
               /\ ui' = page
               /\ chat_history' = h
               /\ prompt' = None
               /\ messages' = <<>>
               /\ pc' = "wait"
     ELSE \* st.info
          /\ ui' = page
          /\ chat_history' = h
          /\ prompt' = None
          /\ messages' = <<>>
          /\ pc' = "wait"

\* a client initialisation that never stops the script
ClientMissing_Never == FALSE

\* init_client: `if not api_key`
ClientMissing == ~api_key

\* one execution of the script from the top, caused by widget event trig
\* (with chat text p), the select boxes showing asel and tsel
Script(trig, p, asel, tsel) ==
  /\ trigger' = trig
  /\ act_select' = asel
  /\ type_select' = tsel
  /\ UNCHANGED api_key
  /\ IF ClientMissing
     THEN \* init_client: st.error, st.stop
          /\ ui' = [Blank EXCEPT !.error = "config"]
          /\ pc' = "wait"
          /\ UNCHANGED << keys, act, project_type, chat_history, system_prompt,
                          gathering_info, final_project, prompt, messages >>
     ELSE LET a  == IF Truthy(asel) THEN asel ELSE Default("act", act, None)
              t  == IF Truthy(tsel) THEN tsel
                    ELSE Default("project_type", project_type, None)
              h  == Default("chat_history", chat_history, <<>>)
              sp == Default("system_prompt", system_prompt, NoPrompt)
              gi == Default("gathering_info", gathering_info, TRUE)
              fp == Default("final_project", final_project, None)
              page == [Blank EXCEPT !.sidebar = TRUE]
          IN /\ keys' = keys \cup SessionKeys
             /\ act' = a
             /\ project_type' = t
             /\ IF trig = "start"
                THEN IF Truthy(a) /\ Truthy(t)
                     THEN /\ system_prompt' = BuildSystemPrompt(a, tsel)
                          /\ gathering_info' = StartFields.gathering_info
                          /\ chat_history' = StartFields.chat_history
                          /\ final_project' = StartFields.final_project
                          /\ prompt' = None
                          /\ messages' = <<>>
                          /\ ui' = page
                          /\ pc' = "rerun"
                     ELSE Main(trig, p, a, t, h, sp, gi, fp,
                               [page EXCEPT !.warning = TRUE])
                ELSE Main(trig, p, a, t, h, sp, gi, fp, page)

(* ------------------------------ actions -------------------------------- *)

\* the first run of a session, and the run that st.rerun() starts
Rerun ==
  /\ pc = "rerun"
  /\ Script("none", None, act_select, type_select)

\* the student reruns the script by hand (the "Rerun" entry of the app menu)
MenuRerun ==
  /\ pc = "wait"
  /\ Script("menu", None, act_select, type_select)

\* the student picks another act in the sidebar
SelectAct ==
  /\ pc = "wait" /\ ui.sidebar
  /\ \E a \in ActNames \ {act_select} : Script("select", None, a, type_select)

\* the student picks another project type in the sidebar
SelectType ==
  /\ pc = "wait" /\ ui.sidebar
  /\ \E t \in ProjectTypeNames \ {type_select} : Script("select", None, act_select, t)

\* the student presses "Start Creating!"
ClickStart ==
  /\ pc = "wait" /\ ui.sidebar
  /\ Script("start", None, act_select, type_select)

\* the student submits a text in the chat box
SubmitChat ==
  /\ pc = "wait" /\ ui.chat_input
  /\ UserTurns(chat_history) < MaxTurns
  /\ \E p \in Prompts : Script("chat", p, act_select, type_select)

\* the student presses "Download as Text File"
ClickDownload ==
  /\ pc = "wait" /\ ui.download
  /\ Script("download", None, act_select, type_select)

\* the student presses "Create Another Project"
ClickReset ==
  /\ pc = "wait" /\ ui.reset
  /\ Script("reset", None, act_select, type_select)

\* a keyword check that switches the flag but does not rerun
KeywordCheck_NoRerun(p) ==
  IF HasCompletionToken(p)
  THEN [gathering_info |-> FALSE, pc |-> "wait"]
  ELSE [gathering_info |-> gathering_info, pc |-> "wait"]

\* the keyword check after the reply of a chat turn
KeywordCheck(p) ==
  IF HasCompletionToken(p)
  THEN [gathering_info |-> FALSE, pc |-> "rerun"]
  ELSE [gathering_info |-> gathering_info, pc |-> "wait"]

\* the gateway answers the call of a chat turn
GatewayReplyGather ==
  /\ pc = "gather_call"
  /\ \E r \in Replies :
       /\ chat_history' = Append(chat_history, Assistant(r))
       /\ gathering_info' = KeywordCheck(prompt).gathering_info
       /\ pc' = KeywordCheck(prompt).pc
  /\ prompt' = None
  /\ messages' = <<>>
  /\ UNCHANGED << api_key, keys, act, project_type, system_prompt, final_project,
                  act_select, type_select, trigger, ui >>

\* an error handler that still runs the keyword check
GatewayErrorGather_KeywordCheck ==
  /\ pc = "gather_call"
  /\ gathering_info' = KeywordCheck(prompt).gathering_info
  /\ pc' = "wait"
  /\ ui' = [ui EXCEPT !.error = "gateway"]
  /\ prompt' = None
  /\ messages' = <<>>
  /\ UNCHANGED << api_key, keys, act, project_type, chat_history, system_prompt,
                  final_project, act_select, type_select, trigger >>

\* an error handler that takes the user's message back out of the transcript
GatewayErrorGather_Rollback ==
  /\ pc = "gather_call"
  /\ chat_history' = SubSeq(chat_history, 1, Len(chat_history) - 1)
  /\ pc' = "wait"
  /\ ui' = [ui EXCEPT !.error = "gateway"]
  /\ prompt' = None
  /\ messages' = <<>>
  /\ UNCHANGED << api_key, keys, act, project_type, system_prompt, gathering_info,
                  final_project, act_select, type_select, trigger >>

\* the call of a chat turn raises: the run ends at the call
GatewayErrorGather ==
  /\ pc = "gather_call"
  /\ pc' = "wait"
  /\ ui' = [ui EXCEPT !.error = "gateway"]
  /\ prompt' = None
  /\ messages' = <<>>
  /\ UNCHANGED << api_key, keys, act, project_type, chat_history, system_prompt,
                  gathering_info, final_project, act_select, type_select, trigger >>

\* a final branch that also appends the artifact to the transcript
GatewayReplyFinal_AppendsReply ==
  /\ pc = "final_call"
  /\ \E r \in FinalReplies :
       IF trigger = "reset"
       THEN /\ keys' = keys \ SessionKeys
            /\ act' = None
            /\ project_type' = None
            /\ chat_history' = <<>>
            /\ system_prompt' = NoPrompt
            /\ gathering_info' = TRUE
            /\ final_project' = None
            /\ pc' = "rerun"
       ELSE /\ final_project' = r
            /\ chat_history' = Append(chat_history, Assistant(r))
            /\ pc' = "wait"
            /\ UNCHANGED << keys, act, project_type, system_prompt,
                            gathering_info >>
  /\ ui' = [ui EXCEPT !.download = TRUE, !.reset = TRUE]
  /\ messages' = <<>>
  /\ UNCHANGED << api_key, act_select, type_select, trigger, prompt >>

\* the gateway answers the final call: the artifact is stored and shown with
\* the download and reset buttons; a pending reset click deletes the keys
GatewayReplyFinal ==
  /\ pc = "final_call"
  /\ \E r \in FinalReplies :
       IF trigger = "reset"
       THEN /\ keys' = keys \ SessionKeys
            /\ act' = None
            /\ project_type' = None
            /\ chat_history' = <<>>
            /\ system_prompt' = NoPrompt
            /\ gathering_info' = TRUE
            /\ final_project' = None
            /\ pc' = "rerun"
       ELSE /\ final_project' = r
            /\ pc' = "wait"
            /\ UNCHANGED << keys, act, project_type, chat_history, system_prompt,
                            gathering_info >>
  /\ ui' = [ui EXCEPT !.download = TRUE, !.reset = TRUE]
  /\ messages' = <<>>
  /\ UNCHANGED << api_key, act_select, type_select, trigger, prompt >>

\* an error handler of the final call that reruns the script by itself
GatewayErrorFinal_Retry ==
  /\ pc = "final_call"
  /\ pc' = "rerun"
  /\ ui' = [ui EXCEPT !.error = "gateway"]
  /\ messages' = <<>>
  /\ UNCHANGED << api_key, keys, act, project_type, chat_history, system_prompt,
                  gathering_info, final_project, act_select, type_select,
                  trigger, prompt >>

\* the final call raises: the run ends at the call
GatewayErrorFinal ==
  /\ pc = "final_call"
  /\ pc' = "wait"
  /\ ui' = [ui EXCEPT !.error = "gateway"]
  /\ messages' = <<>>
  /\ UNCHANGED << api_key, keys, act, project_type, chat_history, system_prompt,
                  gathering_info, final_project, act_select, type_select,
                  trigger, prompt >>

Next ==
  \/ Rerun
  \/ MenuRerun
  \/ SelectAct
  \/ SelectType
  \/ ClickStart
  \/ SubmitChat
  \/ ClickDownload
  \/ ClickReset
  \/ GatewayReplyGather
  \/ GatewayErrorGather
  \/ GatewayReplyFinal
  \/ GatewayErrorFinal

Spec == Init /\ [][Next]_vars

TypeOK ==
  /\ api_key \in BOOLEAN
  /\ keys \in {{}, SessionKeys}
  /\ act \in ActNames \cup {None}
  /\ project_type \in ProjectTypeNames \cup {None}
  /\ gathering_info \in BOOLEAN
  /\ final_project \in FinalReplies \cup {None}
  /\ pc \in {"rerun", "wait", "gather_call", "final_call"}
  /\ trigger \in {"none", "menu", "select", "start", "chat", "download", "reset"}

(* ------------------------------ properties ----------------------------- *)

Last(h) == h[Len(h)]
Front(h) == SubSeq(h, 1, Len(h) - 1)

\* the texts of Prompts that hold "done", "finish" or "ready" in any case,
\* classified by hand ("already" holds "ready", "Red one" holds none)
TokenTexts == { "I choose A, done", "already", "FINISH" }

\* C1: in every reachable state the final artifact is set and non-empty
\* exactly when the phase is Complete; in Idle, Gathering and Finalizing it
\* is unset or empty.
C1_ArtifactIffComplete ==
  Truthy(final_project) <=> Phase = "Complete"

C1_Witness ==
  /\ Phase = "Complete"
  /\ pc = "wait"
  /\ final_project = "Panel 1: ..."

\* C2 as stated: no step taken from Gathering, Finalizing or Complete makes
\* the transcript shorter.
C2_Original ==
  [][ (Phase \in {"Gathering", "Finalizing", "Complete"})
        => (Len(chat_history') >= Len(chat_history)) ]_vars

\* C2 amended: a step either keeps the transcript as a prefix of the new
\* one, or empties it, and it empties it only in the Start handler (taken in
\* any phase, leaving the session in Gathering) or in the reset handler
\* (which deletes the session keys).
C2_Amended ==
  [][ \/ /\ Len(chat_history') >= Len(chat_history)
         /\ SubSeq(chat_history', 1, Len(chat_history)) = chat_history
      \/ /\ chat_history' = <<>>
         /\ \/ trigger' = "start" /\ pc' = "rerun" /\ Phase' = "Gathering"
            \/ trigger = "reset" /\ pc = "final_call" /\ keys' = {} ]_vars

C2_Witness ==
  /\ Phase = "Gathering"
  /\ pc = "wait"
  /\ Len(chat_history) >= 3
  /\ ui.error = "gateway"

\* C3: when the gateway answers a chat turn, the reply is appended to the
\* transcript, and the phase after it is Finalizing if the text of the turn
\* holds "done", "finish" or "ready" in any letter case and Gathering if it
\* does not; the phase turns to Finalizing in no other step.
C3_CompletionTrigger ==
  [][ /\ (pc = "gather_call" /\ ui'.error # "gateway")
           => /\ Len(chat_history') = Len(chat_history) + 1
              /\ Front(chat_history') = chat_history
              /\ Last(chat_history').role = "assistant"
              /\ Last(chat_history) = User(prompt)
              /\ prompt \in TokenTexts => Phase' = "Finalizing"
              /\ prompt \notin TokenTexts => Phase' = "Gathering"
      /\ (Phase = "Gathering" /\ Phase' = "Finalizing")
           => /\ pc = "gather_call"
              /\ Last(chat_history').role = "assistant"
              /\ Front(chat_history') = chat_history ]_vars

C3_Witness ==
  /\ Phase = "Finalizing"
  /\ pc = "rerun"
  /\ Len(chat_history) >= 2
  /\ Last(chat_history).role = "assistant"
  /\ chat_history[Len(chat_history) - 1] = User("already")

\* C4: when the gateway call of a chat turn fails, the phase stays Gathering,
\* the final artifact stays unset and no message is appended, whatever the
\* text of the turn.
C4_GatherFailure ==
  [][ (pc = "gather_call" /\ ui'.error = "gateway")
        => /\ Phase' = "Gathering"
           /\ final_project' = None
           /\ chat_history' = chat_history
           /\ pc' = "wait" ]_vars

C4_Witness ==
  /\ pc = "wait"
  /\ ui.error = "gateway"
  /\ Phase = "Gathering"
  /\ chat_history # <<>>
  /\ Last(chat_history) = User("FINISH")

\* C5 as stated: after a failed chat turn the transcript is the transcript
\* of before the turn, that is, without the user message the turn appended.
C5_Original ==
  [][ (pc = "gather_call" /\ ui'.error = "gateway")
        => chat_history' = Front(chat_history) ]_vars

\* C6 as stated: pressing "Create Another Project" in phase Complete leaves
\* every session field cleared and the phase Idle.
C6_Original ==
  [][ (Phase = "Complete" /\ pc = "wait" /\ ui.reset /\ trigger' = "reset")
        => /\ Phase' = "Idle"
           /\ act' = None
           /\ project_type' = None
           /\ chat_history' = <<>>
           /\ system_prompt' = NoPrompt
           /\ final_project' = None ]_vars

\* C7 as stated: between the start of Gathering and a reset to Idle no step
\* changes act or project_type.
C7_Original ==
  [][ (Phase # "Idle" /\ Phase' # "Idle")
        => (act' = act /\ project_type' = project_type) ]_vars

\* C8 as stated: whenever the gateway answers the final call, the phase
\* becomes Complete with the artifact set.
C8_Original ==
  [][ (pc = "final_call" /\ ui'.error # "gateway" /\ trigger # "reset")
        => (Phase' = "Complete" /\ Truthy(final_project')) ]_vars

\* C9: the step that enters Finalizing issues a rerun, every run of the
\* script in Finalizing other than one caused by the Start button reaches
\* the final gateway call, and a failure of that call leaves the phase
\* Finalizing, the artifact unset and the sidebar on the page.
C9_FinalizingCallsGateway ==
  [][ /\ (Phase # "Finalizing" /\ Phase' = "Finalizing") => pc' = "rerun"
      /\ (Phase = "Finalizing" /\ pc \in {"wait", "rerun"} /\ trigger' # "start")
           => pc' = "final_call"
      /\ (pc = "final_call" /\ ui'.error = "gateway")
           => /\ Phase' = "Finalizing"
              /\ final_project' = final_project
              /\ ~Truthy(final_project')
              /\ pc' = "wait"
              /\ ui'.sidebar ]_vars

C9_Witness ==
  /\ Phase = "Finalizing"
  /\ pc = "wait"
  /\ ui.error = "gateway"
  /\ final_project = None

\* C10 as stated: whenever a run has ended with the phase Complete, the
\* download button and the reset button are on the page.
C10_Original ==
  (Phase = "Complete" /\ pc = "wait") => (ui.download /\ ui.reset)

\* the two states of a run that waits for the gateway
Calls == { "gather_call", "final_call" }

\* C11: a failed gateway call ends the run; a gateway call starts only in a
\* run caused by a user event, or in the rerun of the keyword check, which
\* follows no failure; a chat call starts only on a submitted chat text.
C11_NoAutomaticRetry ==
  [][ /\ (pc \in Calls /\ ui'.error = "gateway")
           => (pc' = "wait" /\ messages' = <<>>)
      /\ (pc' \in Calls /\ pc \notin Calls)
           => \/ pc = "wait" /\ trigger' # "none"
              \/ pc = "rerun" /\ pc' = "final_call" /\ ui.error # "gateway"
      /\ (pc' = "gather_call" /\ pc # "gather_call")
           => (pc = "wait" /\ trigger' = "chat"
               /\ Last(chat_history') = User(prompt')) ]_vars

C11_Witness ==
  /\ pc = "gather_call"
  /\ trigger = "chat"
  /\ Len(chat_history) >= 2
  /\ chat_history[Len(chat_history) - 1].role = "user"

\* C12: without the credential no session key is ever created, the session
\* fields keep their pre-start values, the phase is Idle, nothing but the
\* configuration error is on the page and no gateway call is in flight, on
\* the first run and on every later run.
C12_NoCredentialNoSession ==
  ~api_key =>
    /\ keys = {}
    /\ act = None /\ project_type = None
    /\ chat_history = <<>> /\ system_prompt = NoPrompt
    /\ final_project = None
    /\ Phase = "Idle"
    /\ pc \notin Calls
    /\ messages = <<>>
    /\ ~ui.sidebar /\ ~ui.chat_input /\ ~ui.download /\ ~ui.reset
    /\ pc = "wait" => ui.error = "config"

C12_Witness ==
  /\ ~api_key
  /\ pc = "wait"
  /\ trigger = "menu"
  /\ ui.error = "config"

\* the word each project type label stands for, written out by hand
ExpectedTypeWord(t) ==
  CASE t = "A paragraph describing a scenario" -> "paragraph"
    [] t = "A comic strip of a scenario"       -> "comic strip"
    [] t = "A skit showing a scenario"         -> "skit"

\* the description of each act, written out by hand
ExpectedDesc(a) ==
  CASE a = "22nd Amendment (1951)" -> "Limits presidents to two terms."
    [] a = "25th Amendment (1967)" ->
         "Handles what happens if the president can't do their job."
    [] a = "Pendleton Act (1883)" ->
         "Makes government jobs based on skills, not politics."
    [] a = "Hatch Act (1939)" ->
         "Stops government workers from doing politics on the job."

\* C14: the system prompt a start leaves behind is one fixed function of the
\* stored act and project type: fixed text around the type word, the act
\* name and the act's description, whatever the state the start is taken in.
C14_PromptFromSelection ==
  [][ (trigger' = "start" /\ pc' = "rerun")
        => /\ Len(system_prompt') = 7
           /\ system_prompt'[2] = ExpectedTypeWord(project_type')
           /\ system_prompt'[4] = act'
           /\ system_prompt'[6] = ExpectedDesc(act')
           /\ system_prompt'[1] = "You are a kind and patient AI teacher assistant ... create a simple, fun "
           /\ system_prompt'[3] = " about a scenario under the "
           /\ system_prompt'[5] = ": "
           /\ system_prompt'[7] = ". Rules: ... Start by asking: 'What's a fun scenario you can think of for this act? ...'" ]_vars

C14_Witness ==
  /\ trigger = "start"
  /\ pc = "rerun"
  /\ Len(system_prompt) = 7
  /\ system_prompt[2] = "paragraph"
  /\ system_prompt[4] = "Pendleton Act (1883)"

\* C15: while a chat turn waits for the gateway, the message list is the
\* system message with the stored system prompt followed by every message of
\* the transcript in order, the last one being the user message of the turn.
C15_FullHistorySent ==
  pc = "gather_call" =>
    /\ Len(messages) = Len(chat_history) + 1
    /\ messages[1] = [role |-> "system", content |-> system_prompt]
    /\ \A i \in 1..Len(chat_history) : messages[i + 1] = chat_history[i]
    /\ prompt \in Prompts
    /\ messages[Len(messages)] = User(prompt)

C15_Witness ==
  /\ pc = "gather_call"
  /\ Len(chat_history) = 3
  /\ Len(messages) = 4

\* C16: the final call, answered or failed, leaves transcript, system
\* prompt, act and project type as they are, unless the same run goes on to
\* the reset handler; the run that issues the call sends the prompt with the
\* suffix and stores neither; the transcript grows only in Gathering and
\* the stored prompt never holds the suffix.
C16_FinalizationFrame ==
  [][ /\ pc = "final_call"
           => \/ /\ chat_history' = chat_history
                 /\ system_prompt' = system_prompt
                 /\ act' = act
                 /\ project_type' = project_type
              \/ trigger = "reset" /\ keys' = {}
      /\ (pc' = "final_call" /\ pc # "final_call")
           => /\ chat_history' = chat_history
              /\ system_prompt' = system_prompt
              /\ messages'[1].content = Append(system_prompt', FinalSuffix)
              /\ SubSeq(messages', 2, Len(messages')) = chat_history'
      /\ Len(chat_history') > Len(chat_history) => Phase = "Gathering"
      /\ \A i \in 1..Len(system_prompt') : system_prompt'[i] # FinalSuffix ]_vars

C16_Witness ==
  /\ Phase = "Complete"
  /\ pc = "wait"
  /\ ui.download
  /\ Len(chat_history) = 2
  /\ Len(system_prompt) = 7

\* C17 as stated: the file name offered with the download button holds no
\* upper-case letter and no space.
C17_Original ==
  (ui.download /\ pc = "wait") =>
    LET fn == FileName(act, project_type)
    IN \A i \in 1..Len(fn) :
         /\ fn[i] # " "
         /\ \A k \in 1..26 : fn[i] # UpperCase[k]

\* C18: in Finalizing and Complete the transcript has at least two messages,
\* the last one an assistant reply and the one before it a user message
\* whose text holds a completion token.
C18_TranscriptEndsAnswered ==
  Phase \in {"Finalizing", "Complete"} =>
    /\ Len(chat_history) >= 2
    /\ Last(chat_history).role = "assistant"
    /\ chat_history[Len(chat_history) - 1].role = "user"
    /\ chat_history[Len(chat_history) - 1].content \in TokenTexts

C18_Witness ==
  /\ Phase = "Complete"
  /\ Len(chat_history) = 3
  /\ chat_history[1].role = "user"
  /\ chat_history[2].role = "user"

\* C19: a press of "Start Creating!" in any phase ends in phase Gathering
\* with an empty transcript, no artifact, a rerun pending, and a system
\* prompt that names the act and the type word of the current selection.
C19_StartInEveryPhase ==
  [][ (pc = "wait" /\ trigger' = "start")
        => /\ Phase' = "Gathering"
           /\ chat_history' = <<>>
           /\ final_project' = None
           /\ pc' = "rerun"
           /\ act' = act_select /\ project_type' = type_select
           /\ Len(system_prompt') = 7
           /\ system_prompt'[4] = act_select
           /\ system_prompt'[2] = ExpectedTypeWord(type_select) ]_vars

C19_Witness ==
  /\ trigger = "start"
  /\ pc = "rerun"
  /\ Phase = "Gathering"
  /\ chat_history = <<>>
  /\ final_project = None
  /\ system_prompt[4] = "Hatch Act (1939)"
  /\ system_prompt[2] = "skit"

====
